---- MODULE Spec2Model ----
(***************************************************************************)
(* Model of scripts/ci/json_dup_key_check.py: a command line tool that     *)
(* loads one JSON file with object_pairs_hook = (lambda pairs: pairs) and  *)
(* hands the loaded value to check_duplicate_keys.                         *)
(*                                                                         *)
(* Two specifications:                                                     *)
(*   Spec      runs of the whole script (main), repeated on the same       *)
(*             argument list and file system;                              *)
(*   SpecScan  calls of check_duplicate_keys on pair lists.                *)
(***************************************************************************)
EXTENDS Integers, Sequences, FiniteSets

VARIABLES sys_argv, fs, pc, file_path, data, pairs, idx, keys_seen, ret,
          stdout, stderr, exitcode, last, calls, results

vars == <<sys_argv, fs, pc, file_path, data, pairs, idx, keys_seen, ret,
          stdout, stderr, exitcode, last, calls, results>>

(***************************************************************************)
(* Bounds                                                                  *)
(***************************************************************************)
\* longest top-level array / object of a document, longest scanned pair list
MaxLen == 2
\* longest array / object nested inside the top-level value
MaxInner == 2
\* most positional arguments on the command line
MaxArgs == 2

SeqUpTo(S, n) == UNION {[1..k -> S] : k \in 0..n}

(***************************************************************************)
(* JSON documents (the syntax tree of a well-formed JSON text).            *)
(* A string is the sequence of its characters.                             *)
(***************************************************************************)
JNull      == [t |-> "null",   v |-> 0]
JBool(b)   == [t |-> "bool",   v |-> b]
JNum(n)    == [t |-> "number", v |-> n]
JStr(s)    == [t |-> "string", v |-> s]
JArr(xs)   == [t |-> "array",  v |-> xs]
\* ps is the sequence of <<key, value>> members in source order
JObj(ps)   == [t |-> "object", v |-> ps]

\* key strings: "a", "A" (differs in case), " a" (differs in whitespace)
KeyLower == <<"a">>
KeyUpper == <<"A">>
KeySpace == <<" ", "a">>

\* the documents of the model: a scalar, or an array or object of at most
\* MaxLen entries, each entry a scalar or an array or object of at most
\* MaxInner entries
DocKeys    == {KeyLower, KeyUpper}
Scalars    == {JNull, JBool(TRUE), JNum(1), JStr(<<>>), JStr(<<"a", "b">>)}
InnerElems == {JNum(1), JArr(<<>>)}
InnerArrs  == {JArr(xs) : xs \in SeqUpTo(InnerElems, MaxInner)}
InnerObjs  == {JObj(ps) : ps \in SeqUpTo({KeyLower} \X {JNum(1)}, MaxInner)}
ArrElems   == {JNull, JNum(1), JStr(<<>>), JStr(<<"a", "b">>)}
                \cup InnerArrs \cup InnerObjs
ObjVals    == {JNum(1)} \cup InnerObjs
Docs       == Scalars
                \cup {JArr(xs) : xs \in SeqUpTo(ArrElems, MaxLen)}
                \cup {JObj(ps) : ps \in SeqUpTo(DocKeys \X ObjVals, MaxLen)}

(***************************************************************************)
(* Python values                                                           *)
(***************************************************************************)
Unset       == [t |-> "unset", v |-> 0]
PyNone      == [t |-> "none",  v |-> 0]
PyBool(b)   == [t |-> "bool",  v |-> b]
PyInt(n)    == [t |-> "int",   v |-> n]
PyStr(s)    == [t |-> "str",   v |-> s]
PyList(xs)  == [t |-> "list",  v |-> xs]
PyTuple(xs) == [t |-> "tuple", v |-> xs]

\* json.load(f, object_pairs_hook=lambda pairs: pairs): every object comes
\* back as the list of its (key, value) tuples, every array as a list.
RECURSIVE load(_)
load(j) ==
  CASE j.t = "null"   -> PyNone
    [] j.t = "bool"   -> PyBool(j.v)
    [] j.t = "number" -> PyInt(j.v)
    [] j.t = "string" -> PyStr(j.v)
    [] j.t = "array"  -> PyList([i \in 1..Len(j.v) |-> load(j.v[i])])
    [] j.t = "object" ->
         PyList([i \in 1..Len(j.v) |->
                   PyTuple(<<PyStr(j.v[i][1]), load(j.v[i][2])>>)])

\* iter(x): the for statement and tuple unpacking iterate lists, tuples and
\* strings (a string yields its one-character strings)
IsIterable(x) == x.t \in {"list", "tuple", "str"}
Iter(x) == IF x.t = "str" THEN [i \in 1..Len(x.v) |-> PyStr(<<x.v[i]>>)]
                          ELSE x.v

\* hash(x): lists are unhashable, a tuple is hashable iff its items are
RECURSIVE Hashable(_)
Hashable(x) ==
  CASE x.t = "list"  -> FALSE
    [] x.t = "tuple" -> \A i \in 1..Len(x.v) : Hashable(x.v[i])
    [] OTHER         -> TRUE

\* x == y on hashable values: True == 1 and False == 0, tuples item-wise
RECURSIVE Norm(_)
Norm(x) ==
  CASE x.t = "bool"  -> PyInt(IF x.v THEN 1 ELSE 0)
    [] x.t = "tuple" -> PyTuple([i \in 1..Len(x.v) |-> Norm(x.v[i])])
    [] OTHER         -> x
PyEq(x, y) == Norm(x) = Norm(y)

\* str.lower(), for a comparison that ignores case
LowerChar(c) == IF c = "A" THEN "a" ELSE c
CaseFold(x) == IF x.t = "str" THEN PyStr([i \in 1..Len(x.v) |-> LowerChar(x.v[i])])
                              ELSE x
\* variant of InSet: key.lower() in keys_seen, keys stored as given
InSet_casefold(k, s) == \E e \in s : CaseFold(Norm(e)) = CaseFold(Norm(k))

\* key in keys_seen
InSet(k, s) == \E e \in s : PyEq(e, k)

(***************************************************************************)
(* The file system: what open(file_path, 'r') and f.read() meet            *)
(***************************************************************************)
Missing     == [t |-> "missing",   v |-> 0]  \* open: FileNotFoundError
Denied      == [t |-> "denied",    v |-> 0]  \* open: another OSError
Undecodable == [t |-> "bytes",     v |-> 0]  \* read: UnicodeDecodeError
Malformed(d) == [t |-> "malformed", v |-> d] \* text that is not JSON
Json(j)     == [t |-> "json",      v |-> j]  \* well-formed JSON text

\* the decoder's error details for: an empty file, 'not json at all',
\* and the truncated text '{"a": 1, "a"'
ParseDetails == {"Expecting value: line 1 column 1 (char 0)",
                 "Expecting ':' delimiter: line 1 column 13 (char 12)"}

FileStates == {Missing, Denied, Undecodable}
                \cup {Malformed(d) : d \in ParseDetails}
                \cup {Json(j) : j \in Docs}
\* the file {"a": 1, "a": 1}
DupFile == Json(JObj(<<<<KeyLower, JNum(1)>>, <<KeyLower, JNum(1)>>>>))

\* p.json is in any state when the run is about it, q.json always exists
Paths == {"p.json", "q.json"}
Prog  == "json_dup_key_check.py"
ArgLists == SeqUpTo(Paths, MaxArgs)

(***************************************************************************)
(* Messages                                                                *)
(***************************************************************************)
MsgUsage        == <<"Usage: python json_dup_key_check.py <json_file>">>
MsgDup(p)       == <<"Duplicate keys found in ", p>>
MsgNoDup(p)     == <<"No duplicate keys in ", p>>
MsgInvalid(p, e) == <<"Invalid JSON in ", p, ": ", e>>
MsgNotFound(p)  == <<"File not found: ", p>>

\* the record kept of a finished run; NoRun before the first one
NoRun == [stdout |-> <<>>, stderr |-> <<>>, exitcode |-> 0 - 1,
          fs |-> [p \in Paths |-> Missing]]
Outcome == [stdout |-> stdout, stderr |-> stderr, exitcode |-> exitcode,
            fs |-> fs]

(***************************************************************************)
(* Process primitives                                                      *)
(***************************************************************************)
\* print(m)
WriteStdout(m) == stdout' = Append(stdout, m)

\* sys.exit(n)
sys_exit(n) == /\ pc' = "exited"
               /\ exitcode' = n

\* an exception no except clause of main matches: the interpreter writes
\* the traceback to stderr and the process ends with status 1
Unhandled(e) == /\ stderr' = Append(stderr, e)
                /\ pc' = "exited"
                /\ exitcode' = 1
                /\ UNCHANGED stdout

\* a fresh interpreter: nothing of an earlier process is left
FreshProcess == /\ pc' = "main"
                /\ file_path' = ""
                /\ data' = Unset
                /\ pairs' = Unset
                /\ idx' = 0
                /\ keys_seen' = {}
                /\ ret' = FALSE
                /\ stdout' = <<>>
                /\ stderr' = <<>>
                /\ exitcode' = 0 - 1

frame == <<pairs, idx, keys_seen, ret>>
world == <<sys_argv, fs, last, calls, results>>

(***************************************************************************)
(* check_duplicate_keys(pairs)                                             *)
(***************************************************************************)
\* entry: bind the parameter, keys_seen = set()
Enter(p) == /\ pairs' = p
            /\ keys_seen' = {}
            /\ idx' = 1
            /\ ret' = FALSE
            /\ pc' = "for"

\* the item the for statement is at, and its unpacking into key, value
Item == Iter(pairs)[idx]
HasItem == IsIterable(pairs) /\ idx <= Len(Iter(pairs))
Unpacks == HasItem /\ IsIterable(Item) /\ Len(Iter(Item)) = 2
\* variant of key: the loop tests the whole (key, value) pair
key_whole_pair == Item
key == Iter(Item)[1]
value == Iter(Item)[2]

\* if key in keys_seen: return True
ForDup == /\ pc = "for"
          /\ Unpacks
          /\ Hashable(key)
          /\ InSet(key, keys_seen)
          /\ ret' = TRUE
          /\ pc' = "returned"
          /\ UNCHANGED <<pairs, idx, keys_seen>>

\* keys_seen.add(key), next item
ForAdd == /\ pc = "for"
          /\ Unpacks
          /\ Hashable(key)
          /\ ~InSet(key, keys_seen)
          /\ keys_seen' = keys_seen \cup {key}
          /\ idx' = idx + 1
          /\ UNCHANGED <<pairs, ret, pc>>

\* the loop is exhausted: return False
ForEnd == /\ pc = "for"
          /\ IsIterable(pairs)
          /\ idx > Len(Iter(pairs))
          /\ ret' = FALSE
          /\ pc' = "returned"
          /\ UNCHANGED <<pairs, idx, keys_seen>>

\* the exception the loop raises at this item, "" if none
ForError ==
  IF ~IsIterable(pairs) THEN "TypeError"
  ELSE IF ~HasItem THEN ""
  ELSE IF ~IsIterable(Item) THEN "TypeError"
  ELSE IF Len(Iter(Item)) # 2 THEN "ValueError"
  ELSE IF ~Hashable(key) THEN "TypeError"
  ELSE ""

(***************************************************************************)
(* main()                                                                  *)
(***************************************************************************)
\* if len(sys.argv) != 2: print usage, sys.exit(1)
Usage == /\ pc = "main"
         /\ Len(sys_argv) # 2
         /\ WriteStdout(MsgUsage)
         /\ sys_exit(1)
         /\ UNCHANGED <<file_path, data, frame, stderr, world>>

\* variant of TakePath: the guard of main is len(sys.argv) < 2
TakePath_atleast == /\ pc = "main"
                    /\ Len(sys_argv) >= 2
                    /\ file_path' = sys_argv[2]
                    /\ pc' = "open"
                    /\ UNCHANGED <<data, frame, stdout, stderr, exitcode, world>>

\* file_path = sys.argv[1]
TakePath == /\ pc = "main"
            /\ Len(sys_argv) = 2
            /\ file_path' = sys_argv[2]
            /\ pc' = "open"
            /\ UNCHANGED <<data, frame, stdout, stderr, exitcode, world>>

\* variant of OpenNotFound: main has no except FileNotFoundError clause
OpenNotFound_uncaught == /\ pc = "open"
                         /\ fs[file_path].t = "missing"
                         /\ Unhandled("FileNotFoundError")
                         /\ UNCHANGED <<file_path, data, frame, world>>

\* open(file_path, 'r') raises FileNotFoundError: except clause of line 38
OpenNotFound == /\ pc = "open"
                /\ fs[file_path].t = "missing"
                /\ WriteStdout(MsgNotFound(file_path))
                /\ sys_exit(1)
                /\ UNCHANGED <<file_path, data, frame, stderr, world>>

\* open raises IsADirectoryError or PermissionError: no except clause
OpenError == /\ pc = "open"
             /\ fs[file_path].t = "denied"
             /\ Unhandled("OSError")
             /\ UNCHANGED <<file_path, data, frame, world>>

\* variant of OpenOk: the file is opened with mode 'w+', which empties it
OpenOk_truncating ==
  /\ pc = "open"
  /\ fs[file_path].t \notin {"missing", "denied"}
  /\ fs' = [fs EXCEPT ![file_path] =
                         Malformed("Expecting value: line 1 column 1 (char 0)")]
  /\ pc' = "load"
  /\ UNCHANGED <<file_path, data, frame, stdout, stderr, exitcode,
                 sys_argv, last, calls, results>>

\* open succeeds (mode 'r' leaves the file as it is)
OpenOk == /\ pc = "open"
          /\ fs[file_path].t \notin {"missing", "denied"}
          /\ pc' = "load"
          /\ UNCHANGED <<file_path, data, frame, stdout, stderr, exitcode,
                         world>>

\* json.load: f.read() raises UnicodeDecodeError, a ValueError that is not
\* a JSONDecodeError: no except clause
LoadUndecodable == /\ pc = "load"
                   /\ fs[file_path].t = "bytes"
                   /\ Unhandled("UnicodeDecodeError")
                   /\ UNCHANGED <<file_path, data, frame, world>>

\* json.load raises JSONDecodeError: except clause of line 35
LoadInvalid == /\ pc = "load"
               /\ fs[file_path].t = "malformed"
               /\ WriteStdout(MsgInvalid(file_path, fs[file_path].v))
               /\ sys_exit(1)
               /\ UNCHANGED <<file_path, data, frame, stderr, world>>

\* data = json.load(f, object_pairs_hook=lambda pairs: pairs)
LoadOk == /\ pc = "load"
          /\ fs[file_path].t = "json"
          /\ data' = load(fs[file_path].v)
          /\ pc' = "check"
          /\ UNCHANGED <<file_path, frame, stdout, stderr, exitcode, world>>

\* check_duplicate_keys(data) is called
Call == /\ pc = "check"
        /\ Enter(data)
        /\ UNCHANGED <<file_path, data, stdout, stderr, exitcode, world>>

\* the loop raises TypeError or ValueError: no except clause of main
\* matches (JSONDecodeError is a subclass of ValueError, not the reverse)
ForRaise == /\ pc = "for"
            /\ ForError # ""
            /\ Unhandled(ForError)
            /\ UNCHANGED <<file_path, data, frame, world>>

MainFor == /\ (ForDup \/ ForAdd \/ ForEnd)
           /\ UNCHANGED <<file_path, data, stdout, stderr, exitcode, world>>

\* print(f"Duplicate keys found in {file_path}"); sys.exit(1)
ReportDup == /\ pc = "returned"
             /\ ret
             /\ WriteStdout(MsgDup(file_path))
             /\ sys_exit(1)
             /\ UNCHANGED <<file_path, data, frame, stderr, world>>

\* print(f"No duplicate keys in {file_path}"); sys.exit(0)
ReportNoDup == /\ pc = "returned"
               /\ ~ret
               /\ WriteStdout(MsgNoDup(file_path))
               /\ sys_exit(0)
               /\ UNCHANGED <<file_path, data, frame, stderr, world>>

\* the tool is started again with the same argument list
Rerun == /\ pc = "exited"
         /\ last' = Outcome
         /\ FreshProcess
         /\ UNCHANGED <<sys_argv, fs, calls, results>>

Init == /\ \E args \in ArgLists : sys_argv = <<Prog>> \o args
        /\ \E target \in (IF sys_argv = <<Prog, "p.json">>
                              THEN FileStates ELSE {Missing, DupFile}) :
             fs = [p \in Paths |-> IF p = "p.json" THEN target ELSE DupFile]
        /\ pc = "main"
        /\ file_path = ""
        /\ data = Unset
        /\ pairs = Unset
        /\ idx = 0
        /\ keys_seen = {}
        /\ ret = FALSE
        /\ stdout = <<>>
        /\ stderr = <<>>
        /\ exitcode = 0 - 1
        /\ last = NoRun
        /\ calls = <<>>
        /\ results = <<>>

Next == \/ Usage
        \/ TakePath
        \/ OpenNotFound
        \/ OpenError
        \/ OpenOk
        \/ LoadUndecodable
        \/ LoadInvalid
        \/ LoadOk
        \/ Call
        \/ MainFor
        \/ ForRaise
        \/ ReportDup
        \/ ReportNoDup
        \/ Rerun

Spec == Init /\ [][Next]_vars

(***************************************************************************)
(* SpecScan: check_duplicate_keys called on two pair lists, one after the  *)
(* other in the same interpreter.  The two lists carry the same sequence   *)
(* of keys and independently chosen values.                                *)
(***************************************************************************)
ScanKeys == {KeyLower, KeyUpper, KeySpace}
\* a nested object, as the hook returns it, here with a repeated key
NestedPairs == PyList(<<PyTuple(<<PyStr(KeyLower), PyInt(1)>>),
                        PyTuple(<<PyStr(KeyLower), PyInt(1)>>)>>)
ScanValues == {PyNone, PyBool(TRUE), PyInt(1), PyStr(<<"a", "b">>),
               PyList(<<PyInt(1)>>), NestedPairs}
\* the values of the second list: one value at every position
UniformValues == {PyNone, NestedPairs}

\* the pair list with keys ks and values vs
PairList(ks, vs) ==
  PyList([i \in 1..Len(ks) |-> PyTuple(<<PyStr(ks[i]), vs[i]>>)])

\* the call in progress, or the next one, and its argument
CallNo == Len(results) + 1

ScanCall == /\ pc = "idle"
            /\ CallNo <= Len(calls)
            /\ Enter(calls[CallNo])
            /\ UNCHANGED <<file_path, data, stdout, stderr, exitcode, world>>

ScanFor == /\ (ForDup \/ ForAdd \/ ForEnd)
           /\ UNCHANGED <<file_path, data, stdout, stderr, exitcode, world>>

ScanReturn == /\ pc = "returned"
              /\ results' = Append(results, ret)
              /\ pc' = "idle"
              /\ UNCHANGED <<file_path, data, frame, stdout, stderr, exitcode,
                             sys_argv, fs, last, calls>>

InitScan == /\ \E n \in 0..MaxLen :
                 \E ks \in [1..n -> ScanKeys], vs \in [1..n -> ScanValues],
                    w \in UniformValues :
                    calls = <<PairList(ks, vs), PairList(ks, [i \in 1..n |-> w])>>
            /\ sys_argv = <<Prog>>
            /\ fs = [p \in Paths |-> Missing]
            /\ pc = "idle"
            /\ file_path = ""
            /\ data = Unset
            /\ pairs = Unset
            /\ idx = 0
            /\ keys_seen = {}
            /\ ret = FALSE
            /\ stdout = <<>>
            /\ stderr = <<>>
            /\ exitcode = 0 - 1
            /\ last = NoRun
            /\ results = <<>>

NextScan == \/ ScanCall
            \/ ScanFor
            \/ ScanReturn

SpecScan == InitScan /\ [][NextScan]_vars

(***************************************************************************)
(* Properties                                                              *)
(***************************************************************************)
\* the run is about one file: the path it names, the state of that file
OneArg == Len(sys_argv) = 2
Target == fs[sys_argv[2]]
Exited == pc = "exited"

\* some object of document j, at any depth, has two members with the same
\* key string
RECURSIVE HasRepeatedKey(_)
HasRepeatedKey(j) ==
  CASE j.t = "object" ->
         \/ \E i, k \in 1..Len(j.v) : i < k /\ j.v[i][1] = j.v[k][1]
         \/ \E i \in 1..Len(j.v) : HasRepeatedKey(j.v[i][2])
    [] j.t = "array" -> \E i \in 1..Len(j.v) : HasRepeatedKey(j.v[i])
    [] OTHER -> FALSE

\* the five fixed messages a run about path p may print
FixedMessages(p) == {MsgUsage, MsgDup(p), MsgNoDup(p), MsgNotFound(p)}
                      \cup {MsgInvalid(p, d) : d \in ParseDetails}

\* C1: a run on a file holding a well-formed document in which some object,
\* at any depth, has a repeated key prints 'Duplicate keys found in
\* {file_path}' and exits with code 1.
C1_RepeatedKeyAtAnyDepthReported ==
  (Exited /\ OneArg /\ Target.t = "json" /\ HasRepeatedKey(Target.v))
    => /\ stdout = <<MsgDup(sys_argv[2])>>
       /\ exitcode = 1

\* C2: a run on a file holding a well-formed document of any top-level
\* type in which no object has a repeated key prints 'No duplicate keys in
\* {file_path}' and exits with code 0.
C2_NoRepeatedKeyReportsSuccess ==
  (Exited /\ OneArg /\ Target.t = "json" /\ ~HasRepeatedKey(Target.v))
    => /\ stdout = <<MsgNoDup(sys_argv[2])>>
       /\ exitcode = 0

\* C3: whenever a run prints 'Duplicate keys found in {file_path}', some
\* object of the parsed document has two members with the same key string;
\* the elements of an array are never taken for the members of an object.
C3_ReportedDuplicateIsReal ==
  (OneArg /\ \E i \in 1..Len(stdout) : stdout[i] = MsgDup(sys_argv[2]))
    => /\ Target.t = "json"
       /\ HasRepeatedKey(Target.v)

\* C4: every run ends having printed exactly one of the five fixed messages
\* and nothing else, with exit code 0 exactly when the message is the
\* no-duplicate message and exit code 1 otherwise.
C4_ExactlyOneOutcome ==
  Exited =>
    /\ Len(stdout) = 1
    /\ stderr = <<>>
    /\ \E p \in Paths : stdout[1] \in FixedMessages(p)
    /\ exitcode = (IF \E p \in Paths : stdout[1] = MsgNoDup(p) THEN 0 ELSE 1)

\* C5: a run on an existing readable file whose content is not well-formed
\* JSON prints a message starting with 'Invalid JSON in {file_path}:' and
\* exits with code 1, without the duplicate check having run and without
\* the duplicate or the no-duplicate message.
C5_NotJsonReportsInvalid ==
  (Exited /\ OneArg /\ Target.t \in {"malformed", "bytes"})
    => /\ Len(stdout) = 1
       /\ Len(stdout[1]) = 4
       /\ stdout[1][1] = "Invalid JSON in "
       /\ stdout[1][2] = sys_argv[2]
       /\ stdout[1][3] = ": "
       /\ exitcode = 1
       /\ data = Unset
       /\ pairs = Unset

\* C6: when exactly one argument is given and it names a path that does not
\* exist, JSON parsing and the duplicate check are never started, and the
\* run ends having printed 'File not found: {file_path}' with exit code 1.
C6_MissingFileNotFound ==
  (OneArg /\ Target.t = "missing")
    => /\ pc \in {"main", "open", "exited"}
       /\ data = Unset
       /\ pairs = Unset
       /\ Exited => /\ stdout = <<MsgNotFound(sys_argv[2])>>
                    /\ stderr = <<>>
                    /\ exitcode = 1

C6_Witness ==
  /\ OneArg
  /\ Target.t = "missing"
  /\ Exited
  /\ stdout = <<MsgNotFound(sys_argv[2])>>

\* C7: when the number of positional arguments is not exactly one, no file
\* is ever opened, read or parsed, whatever the arguments name, and the run
\* ends having printed the usage message with exit code 1.
C7_WrongArgCountIsUsage ==
  ~OneArg
    => /\ pc \in {"main", "exited"}
       /\ file_path = ""
       /\ data = Unset
       /\ pairs = Unset
       /\ Exited => /\ stdout = <<MsgUsage>>
                    /\ stderr = <<>>
                    /\ exitcode = 1

\* two arguments, the first of them naming a well-formed JSON file
C7_Witness ==
  /\ Len(sys_argv) = 3
  /\ fs[sys_argv[2]].t = "json"
  /\ Exited
  /\ stdout = <<MsgUsage>>

\* the keys of a pair list, in order
KeySeq(ps) == [i \in 1..Len(ps.v) |-> ps.v[i].v[1]]

\* C8: for two pair lists with the same sequence of keys,
\* check_duplicate_keys returns the same result whatever the values are.
\* (The first list takes any values; the second holds one value at every
\* position.  Every list agreeing with such a list on the same keys, any
\* two lists with the same keys agree.)
C8_ResultDependsOnKeysOnly ==
  (Len(results) = 2 /\ KeySeq(calls[1]) = KeySeq(calls[2]))
    => results[1] = results[2]

\* both calls returned True on lists that differ in every value
C8_Witness ==
  /\ Len(results) = 2
  /\ KeySeq(calls[1]) = KeySeq(calls[2])
  /\ Len(calls[1].v) = 2
  /\ calls[1].v[1].v[2] = PyInt(1)
  /\ calls[1].v[2].v[2] = PyStr(<<"a", "b">>)
  /\ calls[2].v[1].v[2] = NestedPairs
  /\ results[1]
  /\ results[2]

\* C9: a later run with the same argument list on the same files ends with
\* the exit code and the printed messages of the run before it, and no step
\* of any run changes a file.
C9_RunsRepeatAndFilesKept ==
  /\ [](Exited /\ last # NoRun
          => /\ stdout = last.stdout
             /\ exitcode = last.exitcode
             /\ fs = last.fs)
  /\ [][fs' = fs /\ sys_argv' = sys_argv]_vars

\* a second run on a document has reported a duplicate, as the first did
C9_Witness ==
  /\ Exited
  /\ last # NoRun
  /\ OneArg
  /\ Target.t = "json"
  /\ stdout = <<MsgDup(sys_argv[2])>>
  /\ last.stdout = stdout

\* the key at position i of the list being scanned, the set of keys at the
\* positions before i
KeyAt(i) == pairs.v[i].v[1]
Earlier(i) == {KeyAt(j) : j \in 1..(i - 1)}

\* C10: scanning one pair list, keys_seen is exactly the set of keys at the
\* earlier positions of that list; the call returns True at the first
\* position whose key is among them and False after the last pair
\* otherwise, so it returns True iff two positions hold identical key
\* strings (keys differing in case or whitespace are different).
C10_SeenSetAndResult ==
  /\ pc \in {"for", "returned"} =>
       /\ idx \in 1..(Len(pairs.v) + 1)
       /\ keys_seen = Earlier(idx)
       /\ \A j \in 1..(idx - 1) : KeyAt(j) \notin Earlier(j)
  /\ pc = "returned" =>
       /\ ret <=> \E i, j \in 1..Len(pairs.v) : i < j /\ KeyAt(i) = KeyAt(j)
       /\ ret => idx <= Len(pairs.v) /\ KeyAt(idx) \in Earlier(idx)
       /\ ~ret => idx = Len(pairs.v) + 1

\* the second call returns True at the last pair of its list
C10_Witness ==
  /\ pc = "returned"
  /\ CallNo = 2
  /\ ret
  /\ idx = 2
  /\ keys_seen = {PyStr(KeyLower)}

====
